---- MODULE Spec2Model ----
(***************************************************************************)
(* Lifecycle state machine of the CWU50 MIPI-DSI panel drivers             *)
(*   src/drivers/gpu/drm/panel/panel-clockwork-cwu50.c  (variant           *)
(*                                                       "clockwork")      *)
(*   src/drivers/gpu/drm/panel/panel-cw-cwu50.c         (variant "cw")     *)
(* One handle (struct cwu50_panel) is bound by cwu50_probe of either file  *)
(* and then driven by the host through prepare / enable / disable /        *)
(* unprepare, one call at a time.  Every regulator, GPIO, DSI and sleep    *)
(* call the code makes is appended to the log of the running call; the     *)
(* regulator and DSI calls may fail.  SpecRace drops the host's            *)
(* serialization: a second caller may run between any two steps.           *)
(***************************************************************************)
EXTENDS Integers, Sequences, FiniteSets

VARIABLES
    variant,    \* which driver file bound the handle: "clockwork" or "cw"
    prepared,   \* ctx->prepared (panel-cw-cwu50.c only; the clockwork struct has no such field)
    iovcc,      \* outstanding enables this handle holds on the IOVCC regulator
    vci,        \* outstanding enables this handle holds on the VCI regulator
    reset,      \* last level written to reset_gpio
    pc,         \* position inside the running call, "idle" between calls
    op,         \* the running (or last) lifecycle operation
    i,          \* loop index of cwu50_init_sequence
    ret,        \* the local `int ret` of the running call
    log,        \* hardware actions of the running call, in order
    calls,      \* completed calls: [op, ret, log, pre]
    pre,        \* handle state when the running call was entered
    faults,     \* failures injected so far
    budget,     \* how many calls and failures this behaviour may hold
    parked,     \* locals of the caller that is not running: [pc, op, i, ret, log, pre]
    overlap     \* some call was entered while another call was still running

vars == <<variant, prepared, iovcc, vci, reset, pc, op, i, ret, log, calls, pre,
          faults, budget, parked, overlap>>

----------------------------------------------------------------------------
(* Bounds of the model *)

\* A behaviour is either short with many failures or long (a full power
\* cycle) with none.
\* number of lifecycle calls in a short behaviour
MaxCalls == 3
\* number of regulator / DSI calls that report failure in a short behaviour
MaxFaults == 3
\* number of lifecycle calls in a long behaviour (a full power cycle)
CycleCalls == 4
\* number of regulator / DSI calls that report failure in a long behaviour
CycleFaults == 0
\* number of leading entries of cwu50_panel_init_cmds that are replayed
TableLen == 2
\* number of lifecycle calls in a behaviour with two unserialized callers
RaceCalls == 2
\* number of regulator / DSI calls that report failure in such a behaviour
RaceFaults == 1
\* number of lifecycle calls in a behaviour checked for termination
LiveCalls == 2
\* number of regulator / DSI calls that report failure in such a behaviour
LiveFaults == 2

----------------------------------------------------------------------------
(* Data *)

\* The head of cwu50_panel_init_cmds[] (identical in both files): {reg, value}.
cwu50_panel_init_cmds ==
    << <<224, 0>>, <<225, 147>>, <<226, 101>>, <<227, 248>>,
       <<112, 32>>, <<113, 19>>, <<114, 6>>, <<117, 3>> >>

\* ARRAY_SIZE(cwu50_panel_init_cmds), cut to the model's bound
ARRAY_SIZE == IF TableLen < Len(cwu50_panel_init_cmds) THEN TableLen
              ELSE Len(cwu50_panel_init_cmds)

\* errno values a regulator call may return (-EIO)
RegulatorErrs == {-5}
\* errno values a DSI transfer may return (-ETIMEDOUT)
DsiErrs == {-110}

Variants == {"clockwork", "cw"}

Budgets == { [calls |-> MaxCalls, faults |-> MaxFaults],
             [calls |-> CycleCalls, faults |-> CycleFaults] }

RaceBudgets == { [calls |-> RaceCalls, faults |-> RaceFaults] }

LiveBudgets == { [calls |-> LiveCalls, faults |-> LiveFaults] }

----------------------------------------------------------------------------
(* Hardware actions as they appear in the log *)

Hw(a, t, v, x, r) == [act |-> a, tgt |-> t, val |-> v, aux |-> x, res |-> r]

regulator_enable(rail, r)  == Hw("regulator_enable", rail, 0, 0, r)
regulator_disable(rail, r) == Hw("regulator_disable", rail, 0, 0, r)
gpiod_set_value_cansleep(level) == Hw("gpiod_set_value", "reset", level, 0, 0)
\* a sleep of at least `lo` and about at most `hi` microseconds
usleep_range(lo, hi) == Hw("sleep", "", lo, hi, 0)
msleep(ms) == Hw("sleep", "", ms * 1000, ms * 1000, 0)
\* mipi_dsi_dcs_write_buffer(dsi, cmd->data, CWU50_INIT_CMD_LEN) of table entry k (0-based)
mipi_dsi_dcs_write_buffer(k, r) ==
    Hw("dcs_write_buffer", "dsi", cwu50_panel_init_cmds[k + 1][1],
       cwu50_panel_init_cmds[k + 1][2], r)
mipi_dsi_dcs_exit_sleep_mode(r)  == Hw("exit_sleep_mode", "dsi", 0, 0, r)
mipi_dsi_dcs_set_display_on(r)   == Hw("set_display_on", "dsi", 0, 0, r)
mipi_dsi_dcs_set_tear_on(r)      == Hw("set_tear_on", "dsi", 0, 0, r)
mipi_dsi_dcs_set_display_off(r)  == Hw("set_display_off", "dsi", 0, 0, r)
mipi_dsi_dcs_enter_sleep_mode(r) == Hw("enter_sleep_mode", "dsi", 0, 0, r)

\* Effect of a regulator call on the outstanding enable count: a failed call
\* changes nothing, a successful disable releases one enable.
EnableCount(n, r)  == IF r = 0 THEN n + 1 ELSE n
DisableCount(n, r) == IF r = 0 /\ n > 0 THEN n - 1 ELSE n

\* Results a fallible call may report in this state
Outcomes(errs) == {0} \cup (IF faults < budget.faults THEN errs ELSE {})
Charge(r) == faults' = (IF r < 0 THEN faults + 1 ELSE faults)

Snapshot == [prepared |-> prepared, iovcc |-> iovcc, vci |-> vci, reset |-> reset]

\* calls entered and not yet returned by the caller that is not running
InFlight == IF parked.pc = "idle" THEN 0 ELSE 1

\* The host calls operation o; the code continues at label p.
Begin(v, o, p, acts) ==
    /\ variant = v
    /\ pc = "idle"
    /\ Len(calls) + InFlight < budget.calls
    /\ budget' = budget
    /\ parked' = parked
    /\ overlap' = (overlap \/ parked.pc # "idle")
    /\ op' = o
    /\ pc' = p
    /\ log' = acts
    /\ pre' = Snapshot
    /\ i' = 0
    /\ ret' = 0

\* `return value;` after the actions `acts`
Return(value, acts) ==
    /\ pc' = "idle"
    /\ ret' = value
    /\ log' = log \o acts
    /\ calls' = Append(calls, [op |-> op, ret |-> value, log |-> log \o acts, pre |-> pre])
    /\ budget' = budget
    /\ UNCHANGED <<parked, overlap>>

\* continue at label p after the actions `acts`
Goto(p, acts) ==
    /\ pc' = p
    /\ log' = log \o acts
    /\ calls' = calls
    /\ budget' = budget
    /\ UNCHANGED <<parked, overlap>>

At(v, p) == variant = v /\ pc = p

----------------------------------------------------------------------------
(* panel-clockwork-cwu50.c *)

\* cwu50_probe: devm_kzalloc, reset line requested GPIOD_OUT_LOW
clockwork_cwu50_probe ==
    /\ variant = "clockwork"
    /\ prepared = FALSE
    /\ reset = 0

\* slip: the reset pulse starts low, the first HIGH phase is missing
clockwork_cwu50_reset_low_first ==
    << gpiod_set_value_cansleep(0), usleep_range(1000, 10000),
       gpiod_set_value_cansleep(1), usleep_range(10000, 20000) >>

clockwork_cwu50_reset ==
    << gpiod_set_value_cansleep(1), usleep_range(5000, 10000),
       gpiod_set_value_cansleep(0), usleep_range(1000, 10000),
       gpiod_set_value_cansleep(1), usleep_range(10000, 20000) >>

\* cwu50_prepare, entry: no guard, straight to regulator_enable(ctx->iovcc)
clockwork_cwu50_prepare ==
    /\ Begin("clockwork", "prepare", "prepare_iovcc", <<>>)
    /\ UNCHANGED <<variant, prepared, iovcc, vci, reset, calls, faults>>

clockwork_prepare_iovcc ==
    /\ At("clockwork", "prepare_iovcc")
    /\ \E r \in Outcomes(RegulatorErrs) :
        /\ Charge(r)
        /\ iovcc' = EnableCount(iovcc, r)
        /\ IF r < 0
           THEN Return(r, <<regulator_enable("iovcc", r)>>)
           ELSE /\ Goto("prepare_vci", <<regulator_enable("iovcc", r), usleep_range(1000, 5000)>>)
                /\ ret' = r
    /\ UNCHANGED <<variant, prepared, vci, reset, op, i, pre>>

\* label reached by `goto` when regulator_enable(ctx->vci) fails
clockwork_vci_fail_label == "prepare_disable_iovcc"

clockwork_prepare_vci ==
    /\ At("clockwork", "prepare_vci")
    /\ \E r \in Outcomes(RegulatorErrs) :
        /\ Charge(r)
        /\ vci' = EnableCount(vci, r)
        /\ ret' = r
        /\ IF r < 0
           THEN /\ Goto(clockwork_vci_fail_label, <<regulator_enable("vci", r)>>)
                /\ reset' = reset
           ELSE /\ Goto("init_sequence", <<regulator_enable("vci", r)>> \o clockwork_cwu50_reset)
                /\ reset' = 1
    /\ i' = 0
    /\ UNCHANGED <<variant, prepared, iovcc, op, pre>>

\* slip: the init failure jumps to disable_iovcc and leaves VCI enabled
clockwork_init_fail_label_skips_vci == "prepare_disable_iovcc"

\* label reached by `goto` when cwu50_init_sequence fails
clockwork_init_fail_label == "prepare_disable_vci"

\* slip: the rollback drives the reset line low and powers off at once
clockwork_init_fail_quiesce_no_wait == <<gpiod_set_value_cansleep(0)>>

\* what cwu50_prepare does first when cwu50_init_sequence fails: reset low, then wait
clockwork_init_fail_quiesce ==
    <<gpiod_set_value_cansleep(0), usleep_range(10000, 20000)>>

\* slip: cwu50_init_sequence sends an entry again when its write failed
clockwork_cwu50_init_sequence_retries ==
    /\ At("clockwork", "init_sequence")
    /\ IF i < ARRAY_SIZE
       THEN \E r \in Outcomes(DsiErrs) :
            /\ Charge(r)
            /\ ret' = r
            /\ Goto("init_sequence", <<mipi_dsi_dcs_write_buffer(i, r)>>)
            /\ reset' = reset
            /\ i' = (IF r < 0 THEN i ELSE i + 1)
       ELSE /\ Return(0, <<>>)
            /\ UNCHANGED <<reset, i, faults>>
    /\ UNCHANGED <<variant, prepared, iovcc, vci, op, pre>>

\* one iteration of the loop of cwu50_init_sequence, and what cwu50_prepare
\* does with its result
clockwork_cwu50_init_sequence ==
    /\ At("clockwork", "init_sequence")
    /\ IF i < ARRAY_SIZE
       THEN \E r \in Outcomes(DsiErrs) :
            /\ Charge(r)
            /\ IF r < 0
               THEN /\ ret' = r
                    /\ Goto(clockwork_init_fail_label,
                            <<mipi_dsi_dcs_write_buffer(i, r)>> \o clockwork_init_fail_quiesce)
                    /\ reset' = 0
                    /\ i' = i
               ELSE /\ ret' = r
                    /\ Goto("init_sequence", <<mipi_dsi_dcs_write_buffer(i, r)>>)
                    /\ reset' = reset
                    /\ i' = i + 1
       ELSE /\ Return(0, <<>>)
            /\ UNCHANGED <<reset, i, faults>>
    /\ UNCHANGED <<variant, prepared, iovcc, vci, op, pre>>

\* slip: the disable_vci label waits but does not call regulator_disable(ctx->vci)
clockwork_prepare_disable_vci_forgets ==
    /\ At("clockwork", "prepare_disable_vci")
    /\ Goto("prepare_disable_iovcc", <<usleep_range(5000, 20000)>>)
    /\ UNCHANGED <<variant, prepared, iovcc, vci, reset, op, i, ret, pre, faults>>

clockwork_prepare_disable_vci ==
    /\ At("clockwork", "prepare_disable_vci")
    /\ \E r \in Outcomes(RegulatorErrs) :
        /\ Charge(r)
        /\ vci' = DisableCount(vci, r)
        /\ Goto("prepare_disable_iovcc", <<regulator_disable("vci", r), usleep_range(5000, 20000)>>)
    /\ UNCHANGED <<variant, prepared, iovcc, reset, op, i, ret, pre>>

\* slip: `ret = regulator_disable(ctx->iovcc);` overwrites the transfer's error
clockwork_rollback_result_overwritten(r) == IF r < 0 THEN r ELSE ret

\* value of `return ret;` at the end of the rollback, r being what the last
\* regulator_disable reported (its result is not assigned)
clockwork_rollback_result(r) == ret

\* slip: the rollback returns without regulator_disable(ctx->iovcc)
clockwork_prepare_disable_iovcc_forgets ==
    /\ At("clockwork", "prepare_disable_iovcc")
    /\ Return(ret, <<>>)
    /\ UNCHANGED <<variant, prepared, iovcc, vci, reset, op, i, pre, faults>>

clockwork_prepare_disable_iovcc ==
    /\ At("clockwork", "prepare_disable_iovcc")
    /\ \E r \in Outcomes(RegulatorErrs) :
        /\ Charge(r)
        /\ iovcc' = DisableCount(iovcc, r)
        /\ Return(clockwork_rollback_result(r), <<regulator_disable("iovcc", r)>>)
    /\ UNCHANGED <<variant, prepared, vci, reset, op, i, pre>>

\* cwu50_enable
clockwork_cwu50_enable ==
    /\ Begin("clockwork", "enable", "enable_exit_sleep", <<>>)
    /\ UNCHANGED <<variant, prepared, iovcc, vci, reset, calls, faults>>

\* slip: cwu50_enable does not wait for the panel to leave sleep mode
clockwork_enable_exit_sleep_no_wait ==
    /\ At("clockwork", "enable_exit_sleep")
    /\ \E r \in Outcomes(DsiErrs) :
        /\ Charge(r)
        /\ IF r < 0
           THEN Return(r, <<mipi_dsi_dcs_exit_sleep_mode(r)>>)
           ELSE /\ Goto("enable_display_on", <<mipi_dsi_dcs_exit_sleep_mode(r)>>)
                /\ ret' = r
    /\ UNCHANGED <<variant, prepared, iovcc, vci, reset, op, i, pre>>

clockwork_enable_exit_sleep ==
    /\ At("clockwork", "enable_exit_sleep")
    /\ \E r \in Outcomes(DsiErrs) :
        /\ Charge(r)
        /\ IF r < 0
           THEN Return(r, <<mipi_dsi_dcs_exit_sleep_mode(r)>>)
           ELSE /\ Goto("enable_display_on", <<mipi_dsi_dcs_exit_sleep_mode(r), msleep(120)>>)
                /\ ret' = r
    /\ UNCHANGED <<variant, prepared, iovcc, vci, reset, op, i, pre>>

\* slip: a failed display-on is rolled back by re-entering sleep mode
clockwork_display_on_failed_rolls_back(r) ==
    Return(r, <<mipi_dsi_dcs_set_display_on(r), mipi_dsi_dcs_enter_sleep_mode(0)>>)

\* what cwu50_enable does when mipi_dsi_dcs_set_display_on fails: `return ret;`
clockwork_display_on_failed(r) ==
    Return(r, <<mipi_dsi_dcs_set_display_on(r)>>)

clockwork_enable_display_on ==
    /\ At("clockwork", "enable_display_on")
    /\ \E r \in Outcomes(DsiErrs) :
        /\ Charge(r)
        /\ IF r < 0
           THEN clockwork_display_on_failed(r)
           ELSE /\ Goto("enable_tear_on", <<mipi_dsi_dcs_set_display_on(r), msleep(10)>>)
                /\ ret' = r
    /\ UNCHANGED <<variant, prepared, iovcc, vci, reset, op, i, pre>>

clockwork_enable_tear_on ==
    /\ At("clockwork", "enable_tear_on")
    /\ \E r \in Outcomes(DsiErrs) :
        /\ Charge(r)
        /\ Return(IF r < 0 THEN r ELSE 0, <<mipi_dsi_dcs_set_tear_on(r)>>)
    /\ UNCHANGED <<variant, prepared, iovcc, vci, reset, op, i, pre>>

\* cwu50_disable
clockwork_cwu50_disable ==
    /\ Begin("clockwork", "disable", "disable_display_off", <<>>)
    /\ UNCHANGED <<variant, prepared, iovcc, vci, reset, calls, faults>>

\* slip: cwu50_disable logs a failed display-off and goes on to enter-sleep
clockwork_disable_display_off_goes_on ==
    /\ At("clockwork", "disable_display_off")
    /\ \E r \in Outcomes(DsiErrs) :
        /\ Charge(r)
        /\ Goto("disable_enter_sleep", <<mipi_dsi_dcs_set_display_off(r), msleep(50)>>)
        /\ ret' = r
    /\ UNCHANGED <<variant, prepared, iovcc, vci, reset, op, i, pre>>

clockwork_disable_display_off ==
    /\ At("clockwork", "disable_display_off")
    /\ \E r \in Outcomes(DsiErrs) :
        /\ Charge(r)
        /\ IF r < 0
           THEN Return(r, <<mipi_dsi_dcs_set_display_off(r)>>)
           ELSE /\ Goto("disable_enter_sleep", <<mipi_dsi_dcs_set_display_off(r), msleep(50)>>)
                /\ ret' = r
    /\ UNCHANGED <<variant, prepared, iovcc, vci, reset, op, i, pre>>

clockwork_disable_enter_sleep ==
    /\ At("clockwork", "disable_enter_sleep")
    /\ \E r \in Outcomes(DsiErrs) :
        /\ Charge(r)
        /\ IF r < 0
           THEN Return(r, <<mipi_dsi_dcs_enter_sleep_mode(r)>>)
           ELSE Return(0, <<mipi_dsi_dcs_enter_sleep_mode(r), msleep(100)>>)
    /\ UNCHANGED <<variant, prepared, iovcc, vci, reset, op, i, pre>>

\* slip: cwu50_unprepare powers off without driving the reset line low
clockwork_cwu50_unprepare_keeps_reset ==
    /\ Begin("clockwork", "unprepare", "unprepare_disable_vci", <<>>)
    /\ UNCHANGED <<variant, prepared, iovcc, vci, reset, calls, faults>>

\* cwu50_unprepare, entry: no guard; the reset line is driven low at once
clockwork_cwu50_unprepare ==
    /\ Begin("clockwork", "unprepare", "unprepare_disable_vci",
             <<gpiod_set_value_cansleep(0), usleep_range(1000, 10000)>>)
    /\ reset' = 0
    /\ UNCHANGED <<variant, prepared, iovcc, vci, calls, faults>>

\* where cwu50_unprepare continues after regulator_disable(ctx->vci) returned r
clockwork_unprepare_after_vci(r) == "unprepare_disable_iovcc"

clockwork_unprepare_disable_vci ==
    /\ At("clockwork", "unprepare_disable_vci")
    /\ \E r \in Outcomes(RegulatorErrs) :
        /\ Charge(r)
        /\ vci' = DisableCount(vci, r)
        /\ ret' = r
        /\ IF clockwork_unprepare_after_vci(r) = "return"
           THEN Return(r, <<regulator_disable("vci", r)>>)
           ELSE Goto(clockwork_unprepare_after_vci(r),
                     <<regulator_disable("vci", r), usleep_range(1000, 20000)>>)
    /\ UNCHANGED <<variant, prepared, iovcc, reset, op, i, pre>>

clockwork_unprepare_disable_iovcc ==
    /\ At("clockwork", "unprepare_disable_iovcc")
    /\ \E r \in Outcomes(RegulatorErrs) :
        /\ Charge(r)
        /\ iovcc' = DisableCount(iovcc, r)
        /\ Return(0, <<regulator_disable("iovcc", r)>>)
    /\ UNCHANGED <<variant, prepared, vci, reset, op, i, pre>>

----------------------------------------------------------------------------
(* panel-cw-cwu50.c *)

\* cwu50_probe: devm_kzalloc (prepared = false), reset line requested GPIOD_OUT_HIGH
cw_cwu50_probe ==
    /\ variant = "cw"
    /\ prepared = FALSE
    /\ reset = 1

\* slip: the reset pulse ends low, the panel is never released
cw_cwu50_reset_left_low ==
    << gpiod_set_value_cansleep(1), usleep_range(10000, 20000),
       gpiod_set_value_cansleep(0), usleep_range(10000, 20000) >>

\* slip: the panel is given 5 ms after the reset pulse before the first write
cw_cwu50_reset_short_settle ==
    << gpiod_set_value_cansleep(1), usleep_range(10000, 20000),
       gpiod_set_value_cansleep(0), usleep_range(10000, 20000),
       gpiod_set_value_cansleep(1), msleep(5) >>

cw_cwu50_reset ==
    << gpiod_set_value_cansleep(1), usleep_range(10000, 20000),
       gpiod_set_value_cansleep(0), usleep_range(10000, 20000),
       gpiod_set_value_cansleep(1), msleep(120) >>

\* slip: cwu50_prepare has no guard
cw_prepare_guard_missing == FALSE

\* `if (ctx->prepared) return 0;` at the head of cwu50_prepare
cw_prepare_guard == prepared

\* cwu50_prepare, entry
cw_cwu50_prepare ==
    /\ IF cw_prepare_guard
       THEN /\ Begin("cw", "prepare", "idle", <<>>)
            /\ calls' = Append(calls, [op |-> "prepare", ret |-> 0, log |-> <<>>, pre |-> Snapshot])
       ELSE /\ Begin("cw", "prepare", "prepare_iovcc", <<>>)
            /\ calls' = calls
    /\ UNCHANGED <<variant, prepared, iovcc, vci, reset, faults>>

\* slip: a failed regulator_enable(ctx->iovcc) jumps to disable_iovcc
cw_prepare_iovcc_rolls_back ==
    /\ At("cw", "prepare_iovcc")
    /\ \E r \in Outcomes(RegulatorErrs) :
        /\ Charge(r)
        /\ iovcc' = EnableCount(iovcc, r)
        /\ ret' = r
        /\ Goto(IF r < 0 THEN "prepare_disable_iovcc" ELSE "prepare_vci",
                <<regulator_enable("iovcc", r)>>)
    /\ UNCHANGED <<variant, prepared, vci, reset, op, i, pre>>

cw_prepare_iovcc ==
    /\ At("cw", "prepare_iovcc")
    /\ \E r \in Outcomes(RegulatorErrs) :
        /\ Charge(r)
        /\ iovcc' = EnableCount(iovcc, r)
        /\ IF r < 0
           THEN Return(r, <<regulator_enable("iovcc", r)>>)
           ELSE /\ Goto("prepare_vci", <<regulator_enable("iovcc", r)>>)
                /\ ret' = r
    /\ UNCHANGED <<variant, prepared, vci, reset, op, i, pre>>

\* slip: a failed VCI enable jumps to disable_vci and disables a rail it never enabled
cw_vci_fail_label_disables_vci == "prepare_disable_vci"

\* label reached by `goto` when regulator_enable(ctx->vci) fails
cw_vci_fail_label == "prepare_disable_iovcc"

cw_prepare_vci ==
    /\ At("cw", "prepare_vci")
    /\ \E r \in Outcomes(RegulatorErrs) :
        /\ Charge(r)
        /\ vci' = EnableCount(vci, r)
        /\ ret' = r
        /\ IF r < 0
           THEN /\ Goto(cw_vci_fail_label, <<regulator_enable("vci", r)>>)
                /\ reset' = reset
           ELSE /\ Goto("init_sequence", <<regulator_enable("vci", r)>> \o cw_cwu50_reset)
                /\ reset' = 1
    /\ i' = 0
    /\ UNCHANGED <<variant, prepared, iovcc, op, pre>>

\* slip: the init failure jumps to disable_iovcc and leaves VCI enabled
cw_init_fail_label_skips_vci == "prepare_disable_iovcc"

\* label reached by `goto` when cwu50_init_sequence fails
cw_init_fail_label == "prepare_disable_vci"

\* one step of cwu50_init_sequence (the guard, one iteration of the loop, or the
\* exit-sleep command after the loop), and what cwu50_prepare does with its result
cw_cwu50_init_sequence ==
    /\ At("cw", "init_sequence")
    /\ IF prepared
       THEN /\ Return(0, <<>>)
            /\ UNCHANGED <<prepared, reset, i, faults>>
       ELSE \E r \in Outcomes(DsiErrs) :
            /\ Charge(r)
            /\ IF r < 0
               THEN /\ ret' = r
                    /\ Goto(cw_init_fail_label,
                            << (IF i < ARRAY_SIZE THEN mipi_dsi_dcs_write_buffer(i, r)
                                ELSE mipi_dsi_dcs_exit_sleep_mode(r)),
                               gpiod_set_value_cansleep(0) >>)
                    /\ reset' = 0
                    /\ UNCHANGED <<prepared, i>>
               ELSE IF i < ARRAY_SIZE
                    THEN /\ ret' = r
                         /\ Goto("init_sequence", <<mipi_dsi_dcs_write_buffer(i, r)>>)
                         /\ i' = i + 1
                         /\ UNCHANGED <<prepared, reset>>
                    ELSE /\ Return(0, <<mipi_dsi_dcs_exit_sleep_mode(r)>>)
                         /\ prepared' = TRUE
                         /\ UNCHANGED <<reset, i>>
    /\ UNCHANGED <<variant, iovcc, vci, op, pre>>

cw_prepare_disable_vci ==
    /\ At("cw", "prepare_disable_vci")
    /\ \E r \in Outcomes(RegulatorErrs) :
        /\ Charge(r)
        /\ vci' = DisableCount(vci, r)
        /\ Goto("prepare_disable_iovcc", <<regulator_disable("vci", r)>>)
    /\ UNCHANGED <<variant, prepared, iovcc, reset, op, i, ret, pre>>

\* value of `return ret;` at the end of the rollback, r being what the last
\* regulator_disable reported (its result is not assigned)
cw_rollback_result(r) == ret

cw_prepare_disable_iovcc ==
    /\ At("cw", "prepare_disable_iovcc")
    /\ \E r \in Outcomes(RegulatorErrs) :
        /\ Charge(r)
        /\ iovcc' = DisableCount(iovcc, r)
        /\ Return(cw_rollback_result(r), <<regulator_disable("iovcc", r)>>)
    /\ UNCHANGED <<variant, prepared, vci, reset, op, i, pre>>

\* slip: cwu50_enable sends display-on without the 120 ms wait
cw_cwu50_enable_no_wait ==
    /\ Begin("cw", "enable", "enable_display_on", <<>>)
    /\ UNCHANGED <<variant, prepared, iovcc, vci, reset, calls, faults>>

\* cwu50_enable: msleep(120), then display on
cw_cwu50_enable ==
    /\ Begin("cw", "enable", "enable_display_on", <<msleep(120)>>)
    /\ UNCHANGED <<variant, prepared, iovcc, vci, reset, calls, faults>>

\* what cwu50_enable does when mipi_dsi_dcs_set_display_on fails: `return ret;`
cw_display_on_failed(r) ==
    Return(r, <<mipi_dsi_dcs_set_display_on(r)>>)

cw_enable_display_on ==
    /\ At("cw", "enable_display_on")
    /\ \E r \in Outcomes(DsiErrs) :
        /\ Charge(r)
        /\ IF r < 0
           THEN cw_display_on_failed(r)
           ELSE /\ Goto("enable_tear_on", <<mipi_dsi_dcs_set_display_on(r), msleep(20)>>)
                /\ ret' = r
    /\ UNCHANGED <<variant, prepared, iovcc, vci, reset, op, i, pre>>

cw_enable_tear_on ==
    /\ At("cw", "enable_tear_on")
    /\ \E r \in Outcomes(DsiErrs) :
        /\ Charge(r)
        /\ Return(IF r < 0 THEN r ELSE 0, <<mipi_dsi_dcs_set_tear_on(r)>>)
    /\ UNCHANGED <<variant, prepared, iovcc, vci, reset, op, i, pre>>

\* cwu50_disable: `return mipi_dsi_dcs_set_display_off(ctx->dsi);`
cw_cwu50_disable ==
    /\ Begin("cw", "disable", "disable_display_off", <<>>)
    /\ UNCHANGED <<variant, prepared, iovcc, vci, reset, calls, faults>>

\* slip: a failed display-off makes cwu50_disable put the panel in reset
cw_disable_display_off_resets ==
    /\ At("cw", "disable_display_off")
    /\ \E r \in Outcomes(DsiErrs) :
        /\ Charge(r)
        /\ IF r < 0
           THEN /\ Return(r, <<mipi_dsi_dcs_set_display_off(r), gpiod_set_value_cansleep(0)>>)
                /\ reset' = 0
           ELSE /\ Return(r, <<mipi_dsi_dcs_set_display_off(r)>>)
                /\ reset' = reset
    /\ UNCHANGED <<variant, prepared, iovcc, vci, op, i, pre>>

cw_disable_display_off ==
    /\ At("cw", "disable_display_off")
    /\ \E r \in Outcomes(DsiErrs) :
        /\ Charge(r)
        /\ Return(r, <<mipi_dsi_dcs_set_display_off(r)>>)
    /\ UNCHANGED <<variant, prepared, iovcc, vci, reset, op, i, pre>>

\* slip: the guard of cwu50_unprepare is inverted
cw_unprepare_guard_inverted == prepared

\* `if (!ctx->prepared) return 0;` at the head of cwu50_unprepare
cw_unprepare_guard == ~prepared

\* cwu50_unprepare, entry
cw_cwu50_unprepare ==
    /\ IF cw_unprepare_guard
       THEN /\ Begin("cw", "unprepare", "idle", <<>>)
            /\ calls' = Append(calls, [op |-> "unprepare", ret |-> 0, log |-> <<>>, pre |-> Snapshot])
       ELSE /\ Begin("cw", "unprepare", "unprepare_display_off", <<>>)
            /\ calls' = calls
    /\ UNCHANGED <<variant, prepared, iovcc, vci, reset, faults>>

\* slip: a failed display-off aborts cwu50_unprepare before the reset line is touched
cw_unprepare_display_off_aborts ==
    /\ At("cw", "unprepare_display_off")
    /\ \E r \in Outcomes(DsiErrs) :
        /\ Charge(r)
        /\ IF r < 0
           THEN Return(r, <<mipi_dsi_dcs_set_display_off(r)>>)
           ELSE /\ ret' = r
                /\ Goto("unprepare_enter_sleep", <<mipi_dsi_dcs_set_display_off(r), msleep(20)>>)
    /\ UNCHANGED <<variant, prepared, iovcc, vci, reset, op, i, pre>>

cw_unprepare_display_off ==
    /\ At("cw", "unprepare_display_off")
    /\ \E r \in Outcomes(DsiErrs) :
        /\ Charge(r)
        /\ ret' = r
        /\ Goto("unprepare_enter_sleep", <<mipi_dsi_dcs_set_display_off(r), msleep(20)>>)
    /\ UNCHANGED <<variant, prepared, iovcc, vci, reset, op, i, pre>>

cw_unprepare_enter_sleep ==
    /\ At("cw", "unprepare_enter_sleep")
    /\ \E r \in Outcomes(DsiErrs) :
        /\ Charge(r)
        /\ ret' = r
        /\ Goto("unprepare_disable_vci",
                << mipi_dsi_dcs_enter_sleep_mode(r), msleep(120),
                   gpiod_set_value_cansleep(0), msleep(20) >>)
        /\ reset' = 0
    /\ UNCHANGED <<variant, prepared, iovcc, vci, op, i, pre>>

\* slip: a failed VCI disable aborts the teardown with `return ret;`
cw_unprepare_after_vci_aborts(r) == IF r < 0 THEN "return" ELSE "unprepare_disable_iovcc"

\* where cwu50_unprepare continues after regulator_disable(ctx->vci) returned r
cw_unprepare_after_vci(r) == "unprepare_disable_iovcc"

cw_unprepare_disable_vci ==
    /\ At("cw", "unprepare_disable_vci")
    /\ \E r \in Outcomes(RegulatorErrs) :
        /\ Charge(r)
        /\ vci' = DisableCount(vci, r)
        /\ ret' = r
        /\ IF cw_unprepare_after_vci(r) = "return"
           THEN Return(r, <<regulator_disable("vci", r)>>)
           ELSE Goto(cw_unprepare_after_vci(r),
                     <<regulator_disable("vci", r), usleep_range(1000, 20000)>>)
    /\ UNCHANGED <<variant, prepared, iovcc, reset, op, i, pre>>

cw_unprepare_disable_iovcc ==
    /\ At("cw", "unprepare_disable_iovcc")
    /\ \E r \in Outcomes(RegulatorErrs) :
        /\ Charge(r)
        /\ iovcc' = DisableCount(iovcc, r)
        /\ prepared' = FALSE
        /\ Return(0, <<regulator_disable("iovcc", r)>>)
    /\ UNCHANGED <<variant, vci, reset, op, i, pre>>

----------------------------------------------------------------------------

\* locals of a caller that is in no call
NoCall == [pc |-> "idle", op |-> "probe", i |-> 0, ret |-> 0, log |-> <<>>,
           pre |-> [prepared |-> FALSE, iovcc |-> 0, vci |-> 0, reset |-> 0]]

\* the handle as cwu50_probe of either file leaves it
Probed ==
    /\ variant \in Variants
    /\ (clockwork_cwu50_probe \/ cw_cwu50_probe)
    /\ iovcc = 0
    /\ vci = 0
    /\ pc = "idle"
    /\ op = "probe"
    /\ i = 0
    /\ ret = 0
    /\ log = <<>>
    /\ calls = <<>>
    /\ pre = Snapshot
    /\ faults = 0
    /\ parked = NoCall
    /\ overlap = FALSE

Init == Probed /\ budget \in Budgets

Next ==
    \/ clockwork_cwu50_prepare
    \/ clockwork_prepare_iovcc
    \/ clockwork_prepare_vci
    \/ clockwork_cwu50_init_sequence
    \/ clockwork_prepare_disable_vci
    \/ clockwork_prepare_disable_iovcc
    \/ clockwork_cwu50_enable
    \/ clockwork_enable_exit_sleep
    \/ clockwork_enable_display_on
    \/ clockwork_enable_tear_on
    \/ clockwork_cwu50_disable
    \/ clockwork_disable_display_off
    \/ clockwork_disable_enter_sleep
    \/ clockwork_cwu50_unprepare
    \/ clockwork_unprepare_disable_vci
    \/ clockwork_unprepare_disable_iovcc
    \/ cw_cwu50_prepare
    \/ cw_prepare_iovcc
    \/ cw_prepare_vci
    \/ cw_cwu50_init_sequence
    \/ cw_prepare_disable_vci
    \/ cw_prepare_disable_iovcc
    \/ cw_cwu50_enable
    \/ cw_enable_display_on
    \/ cw_enable_tear_on
    \/ cw_cwu50_disable
    \/ cw_disable_display_off
    \/ cw_cwu50_unprepare
    \/ cw_unprepare_display_off
    \/ cw_unprepare_enter_sleep
    \/ cw_unprepare_disable_vci
    \/ cw_unprepare_disable_iovcc

Spec == Init /\ [][Next]_vars

----------------------------------------------------------------------------
(* A call that was entered keeps running *)

\* one step of the running call: every statement after the function's entry
Step ==
    \/ clockwork_prepare_iovcc
    \/ clockwork_prepare_vci
    \/ clockwork_cwu50_init_sequence
    \/ clockwork_prepare_disable_vci
    \/ clockwork_prepare_disable_iovcc
    \/ clockwork_enable_exit_sleep
    \/ clockwork_enable_display_on
    \/ clockwork_enable_tear_on
    \/ clockwork_disable_display_off
    \/ clockwork_disable_enter_sleep
    \/ clockwork_unprepare_disable_vci
    \/ clockwork_unprepare_disable_iovcc
    \/ cw_prepare_iovcc
    \/ cw_prepare_vci
    \/ cw_cwu50_init_sequence
    \/ cw_prepare_disable_vci
    \/ cw_prepare_disable_iovcc
    \/ cw_enable_display_on
    \/ cw_enable_tear_on
    \/ cw_disable_display_off
    \/ cw_unprepare_display_off
    \/ cw_unprepare_enter_sleep
    \/ cw_unprepare_disable_vci
    \/ cw_unprepare_disable_iovcc

InitLive == Probed /\ budget \in LiveBudgets

\* The functions hold no lock, wait on nothing but their own sleeps, and every
\* regulator, GPIO and DSI call returns: the thread that entered a call is
\* scheduled until it returns.  The host is not obliged to call anything.
SpecLive == InitLive /\ [][Next]_vars /\ WF_vars(Step)

----------------------------------------------------------------------------
(* Two callers that the host does not serialize *)

\* The functions take no lock: between any two statements of a call the other
\* caller may run.  The running caller's locals are parked, the other
\* caller's are resumed; the handle (prepared, rails, reset line) is shared.
Preempt ==
    /\ pc # "idle" \/ parked.pc # "idle"
    /\ parked' = (IF pc = "idle" THEN NoCall
                  ELSE [pc |-> pc, op |-> op, i |-> i, ret |-> ret, log |-> log, pre |-> pre])
    /\ pc' = parked.pc
    /\ op' = parked.op
    /\ i' = parked.i
    /\ ret' = parked.ret
    /\ log' = parked.log
    /\ pre' = parked.pre
    /\ UNCHANGED <<variant, prepared, iovcc, vci, reset, calls, faults, budget, overlap>>

InitRace == Probed /\ budget \in RaceBudgets

NextRace == Next \/ Preempt

SpecRace == InitRace /\ [][NextRace]_vars

----------------------------------------------------------------------------
(* Reading the history *)

Last == calls[Len(calls)]

\* the call of operation o has just returned; the state is its post-state
Returned(o) == pc = "idle" /\ Len(calls) > 0 /\ Last.op = o

\* the entries of lg that are hardware actions (everything but the sleeps)
Actions(lg) == SelectSeq(lg, LAMBDA e : e.act # "sleep")
\* the DSI transfers of lg
Transfers(lg) == SelectSeq(lg, LAMBDA e : e.tgt = "dsi")
\* the init-table writes of lg
Writes(lg) == SelectSeq(lg, LAMBDA e : e.act = "dcs_write_buffer")
\* the regulator_disable calls of lg on one rail
Disables(lg, rail) == SelectSeq(lg, LAMBDA e : e.act = "regulator_disable" /\ e.tgt = rail)
\* the reset-line writes of lg
ResetWrites(lg) == SelectSeq(lg, LAMBDA e : e.act = "gpiod_set_value")
\* the rails lg enabled successfully / called regulator_disable on, in order
RailsEnabled(lg) ==
    LET es == SelectSeq(lg, LAMBDA e : e.act = "regulator_enable" /\ e.res = 0)
    IN  [k \in 1..Len(es) |-> es[k].tgt]
RailsDisabled(lg) ==
    LET ds == SelectSeq(lg, LAMBDA e : e.act = "regulator_disable")
    IN  [k \in 1..Len(ds) |-> ds[k].tgt]
Reverse(sq) == [k \in 1..Len(sq) |-> sq[Len(sq) + 1 - k]]

\* positions of lg holding a failed init-table write
FailedWrites(lg) == {k \in 1..Len(lg) : lg[k].act = "dcs_write_buffer" /\ lg[k].res < 0}

\* what an observer sees of an action: a sleep is a delay, a call is the call
\* without its result
Tag(e) == IF e.act = "sleep" THEN <<"delay", "", 0, 0>> ELSE <<e.act, e.tgt, e.val, e.aux>>
Shape(lg) == [k \in 1..Len(lg) |-> Tag(lg[k])]

\* the init table, written in order without failure
TableWrites == [k \in 1..ARRAY_SIZE |-> mipi_dsi_dcs_write_buffer(k - 1, 0)]

\* The handle is Prepared before call number k: some earlier prepare returned
\* success and no unprepare was called after it.
LiveBefore(k) ==
    \E j \in 1..(k - 1) :
        /\ calls[j].op = "prepare" /\ calls[j].ret = 0
        /\ \A m \in (j + 1)..(k - 1) : calls[m].op # "unprepare"

----------------------------------------------------------------------------
(* C1 *)

\* C1: prepare is idempotent: when a prepare has returned success and prepare
\* is called again with no unprepare in between, the second call returns
\* success and performs no hardware action at all.
C1_PrepareIdempotent ==
    \A k \in 1..Len(calls) :
        (calls[k].op = "prepare" /\ LiveBefore(k))
            => (calls[k].ret = 0 /\ Actions(calls[k].log) = <<>>)

----------------------------------------------------------------------------
(* C2 *)

\* a prepare has just returned after one of its init-table writes failed
PrepareWriteFailed == Returned("prepare") /\ FailedWrites(Last.log) # {}

\* the write part of C2: K-1 successful writes, then the failed one, then no
\* transfer at all
C2_WritesStop ==
    LET lg == Last.log
        f  == CHOOSE k \in FailedWrites(lg) : TRUE
        ws == Writes(lg)
    IN  /\ Cardinality(FailedWrites(lg)) = 1
        /\ ws[Len(ws)] = lg[f]
        /\ \A k \in 1..(Len(ws) - 1) : ws[k] = mipi_dsi_dcs_write_buffer(k - 1, 0)
        /\ Tag(lg[f]) = Tag(mipi_dsi_dcs_write_buffer(Len(ws) - 1, 0))
        /\ \A k \in (f + 1)..Len(lg) : lg[k].tgt # "dsi"

\* C2 as stated: when the K-th table write fails in prepare, K-1 successful
\* writes and 1 failed write are seen, none after it, and on return both rails
\* are disabled and the reset line is LOW.
C2_SymmetricRollback ==
    PrepareWriteFailed =>
        (C2_WritesStop /\ iovcc = 0 /\ vci = 0 /\ reset = 0)

\* C2 amended: when the K-th table write fails in prepare, K-1 successful
\* writes and 1 failed write are seen, none after it, and on return the reset
\* line is LOW and regulator_disable has been called once on VCI and then once
\* on IOVCC; a rail whose disable succeeded holds the enables it held before
\* the call.
C2_SymmetricRollbackAmended ==
    PrepareWriteFailed =>
        /\ C2_WritesStop
        /\ reset = 0
        /\ RailsDisabled(Last.log) = <<"vci", "iovcc">>
        /\ Disables(Last.log, "vci")[1].res = 0 => vci = Last.pre.vci
        /\ Disables(Last.log, "iovcc")[1].res = 0 => iovcc = Last.pre.iovcc

\* a prepare rolled back after its last table entry failed
C2_Witness ==
    /\ PrepareWriteFailed
    /\ Len(Writes(Last.log)) = ARRAY_SIZE
    /\ ARRAY_SIZE > 1
    /\ iovcc = 0 /\ vci = 0

----------------------------------------------------------------------------
(* C3 *)

\* a prepare that ran the hardware has just returned success
PrepareSucceeded == Returned("prepare") /\ Last.ret = 0 /\ Last.log # <<>>

\* the order C3 documents
C3_DocumentedOrder ==
    Shape(<< regulator_enable("iovcc", 0), usleep_range(0, 0),
             regulator_enable("vci", 0),
             gpiod_set_value_cansleep(1), usleep_range(0, 0),
             gpiod_set_value_cansleep(0), usleep_range(0, 0),
             gpiod_set_value_cansleep(1), usleep_range(0, 0) >> \o TableWrites)

\* the order of panel-cw-cwu50.c: no delay between the two enables, and
\* exit-sleep after the table
C3_CwOrder ==
    Shape(<< regulator_enable("iovcc", 0),
             regulator_enable("vci", 0),
             gpiod_set_value_cansleep(1), usleep_range(0, 0),
             gpiod_set_value_cansleep(0), usleep_range(0, 0),
             gpiod_set_value_cansleep(1), usleep_range(0, 0) >>
          \o TableWrites \o <<mipi_dsi_dcs_exit_sleep_mode(0)>>)

\* C3 as stated: every prepare that returns success performed exactly
\* IOVCC-enable, delay, VCI-enable, reset HIGH, delay, reset LOW, delay,
\* reset HIGH, delay, then the table writes in table order, nothing else.
C3_PrepareOrder ==
    PrepareSucceeded => Shape(Last.log) = C3_DocumentedOrder

\* C3 amended: a successful prepare of panel-clockwork-cwu50.c performs exactly
\* the documented order; a successful prepare of panel-cw-cwu50.c performs
\* IOVCC-enable, VCI-enable (no delay between them), the same reset pulse, the
\* table in order and then exit-sleep-mode.
C3_PrepareOrderAmended ==
    PrepareSucceeded =>
        Shape(Last.log) = (IF variant = "clockwork" THEN C3_DocumentedOrder ELSE C3_CwOrder)

C3_Witness == PrepareSucceeded /\ variant = "clockwork" /\ Len(Writes(Last.log)) = ARRAY_SIZE

----------------------------------------------------------------------------
(* C4 *)

\* an unprepare of a Prepared handle has just returned
UnprepareOfPrepared == Returned("unprepare") /\ LiveBefore(Len(calls))

\* C4: every unprepare of a prepared handle returns success with the prepared
\* flag false, whatever the two regulator_disable calls report; both disables
\* are attempted, VCI first, also when the VCI one fails.
C4_TeardownTotal ==
    UnprepareOfPrepared =>
        /\ Last.ret = 0
        /\ prepared = FALSE
        /\ RailsDisabled(Last.log) = <<"vci", "iovcc">>

\* both disables failed and unprepare still completed
C4_Witness ==
    /\ UnprepareOfPrepared
    /\ Len(Disables(Last.log, "vci")) = 1 /\ Disables(Last.log, "vci")[1].res < 0
    /\ Len(Disables(Last.log, "iovcc")) = 1 /\ Disables(Last.log, "iovcc")[1].res < 0

----------------------------------------------------------------------------
(* C5 *)

\* an enable has just returned in which exit-sleep succeeded and display-on failed
EnableDisplayOnFailed ==
    /\ Returned("enable")
    /\ \E a, b \in 1..Len(Last.log) :
        /\ a < b
        /\ Last.log[a].act = "exit_sleep_mode" /\ Last.log[a].res = 0
        /\ Last.log[b].act = "set_display_on" /\ Last.log[b].res < 0

\* C5: when exit-sleep succeeds and display-on fails, enable returns that
\* error, the failed display-on is its last action (no further transfer, no
\* regulator call, no reset-line write) and rails and reset line are as before.
C5_ForwardOnlyEnable ==
    EnableDisplayOnFailed =>
        LET lg == Last.log
        IN  /\ lg[Len(lg)].act = "set_display_on"
            /\ Last.ret = lg[Len(lg)].res
            /\ Last.ret < 0
            /\ Len(Transfers(lg)) = 2
            /\ \A k \in 1..Len(lg) : lg[k].act \notin {"regulator_disable", "regulator_enable", "gpiod_set_value"}
            /\ iovcc = Last.pre.iovcc /\ vci = Last.pre.vci /\ reset = Last.pre.reset

C5_Witness == EnableDisplayOnFailed /\ LiveBefore(Len(calls))


----------------------------------------------------------------------------
(* C6 *)

\* C6: when a table write fails in prepare, prepare returns the error that
\* write reported, regulator_disable is called exactly once on VCI and exactly
\* once on IOVCC, and the prepared flag is false afterwards, whatever the two
\* disables report.
C6_WriteFailureRollback ==
    PrepareWriteFailed =>
        LET lg == Last.log
            f  == CHOOSE k \in FailedWrites(lg) : TRUE
        IN  /\ Last.ret = lg[f].res
            /\ Len(Disables(lg, "vci")) = 1
            /\ Len(Disables(lg, "iovcc")) = 1
            /\ prepared = FALSE

\* the rollback's own disables both failed
C6_Witness ==
    /\ PrepareWriteFailed
    /\ \A k \in 1..Len(Last.log) :
        Last.log[k].act = "regulator_disable" => Last.log[k].res < 0
    /\ Len(RailsDisabled(Last.log)) = 2

----------------------------------------------------------------------------
(* C7 *)

\* the most recent prepare succeeded and no unprepare was called since
PoweredByHistory ==
    \E j \in 1..Len(calls) :
        /\ calls[j].op = "prepare" /\ calls[j].ret = 0
        /\ \A m \in (j + 1)..Len(calls) :
            /\ calls[m].op # "unprepare"
            /\ calls[m].op = "prepare" => calls[m].ret = 0

\* every regulator_disable called so far succeeded
DisablesSucceeded ==
    \A k \in 1..Len(calls) : \A n \in 1..Len(calls[k].log) :
        calls[k].log[n].act = "regulator_disable" => calls[k].log[n].res = 0

\* C7: between calls the power flag is true exactly when the most recent
\* prepare succeeded and no unprepare came since; it is false initially, after
\* every unprepare and after every failed prepare; and while every
\* regulator_disable succeeded it is true exactly when both rails are enabled.
C7_PowerFlag ==
    pc = "idle" =>
        /\ prepared <=> PoweredByHistory
        /\ Returned("unprepare") => ~prepared
        /\ (Returned("prepare") /\ Last.ret # 0) => ~prepared
        /\ DisablesSucceeded => (prepared <=> (iovcc > 0 /\ vci > 0))

\* C7 on the handles that keep the flag (panel-cw-cwu50.c): the same statement
\* holds there.
C7_PowerFlagCw == variant = "cw" => C7_PowerFlag

----------------------------------------------------------------------------
(* C8 *)

\* a prepare has just returned an error
PrepareFailed == Returned("prepare") /\ Last.ret # 0

\* C8: when prepare fails, the rails it called regulator_disable on are the
\* rails this call had enabled, in the reverse order, after the enables; when
\* VCI-enable is what failed, IOVCC is disabled once, VCI is not, the reset
\* line is not written and nothing is transferred.
C8_ReverseRollback ==
    PrepareFailed =>
        LET lg == Last.log
        IN  /\ RailsDisabled(lg) = Reverse(RailsEnabled(lg))
            /\ \A a, b \in 1..Len(lg) :
                (lg[a].act = "regulator_enable" /\ lg[b].act = "regulator_disable") => a < b
            /\ (\E k \in 1..Len(lg) :
                    lg[k].act = "regulator_enable" /\ lg[k].tgt = "vci" /\ lg[k].res < 0)
                => /\ RailsDisabled(lg) = <<"iovcc">>
                   /\ ResetWrites(lg) = <<>>
                   /\ Transfers(lg) = <<>>

\* VCI-enable failed after IOVCC-enable succeeded
C8_Witness ==
    /\ PrepareFailed
    /\ RailsEnabled(Last.log) = <<"iovcc">>
    /\ RailsDisabled(Last.log) = <<"iovcc">>

----------------------------------------------------------------------------
(* C9 *)

\* C9: unprepare of a handle that is not Prepared (never prepared, already
\* unprepared, or after a failed prepare) returns success and performs no
\* hardware action.
C9_UnprepareNoop ==
    (Returned("unprepare") /\ ~LiveBefore(Len(calls)))
        => (Last.ret = 0 /\ Actions(Last.log) = <<>>)

----------------------------------------------------------------------------
(* C10 *)

\* no call so far reported a failure
AllSucceeded ==
    \A k \in 1..Len(calls) : \A n \in 1..Len(calls[k].log) : calls[k].log[n].res = 0

\* prepare, enable, disable, unprepare on a fresh handle, nothing failing
FullCycle ==
    /\ pc = "idle"
    /\ Len(calls) = 4
    /\ calls[1].op = "prepare" /\ calls[2].op = "enable"
    /\ calls[3].op = "disable" /\ calls[4].op = "unprepare"
    /\ AllSucceeded

\* the hardware actions of call k, sleeps left out, results left out
Did(k) == Shape(Actions(calls[k].log))

PowerOnAndReset ==
    << regulator_enable("iovcc", 0), regulator_enable("vci", 0),
       gpiod_set_value_cansleep(1), gpiod_set_value_cansleep(0),
       gpiod_set_value_cansleep(1) >>
PowerOff ==
    << gpiod_set_value_cansleep(0), regulator_disable("vci", 0),
       regulator_disable("iovcc", 0) >>

\* C10 as stated: the full cycle performs the documented sequences, each in the
\* operation that documents it, and ends with the flag false.
C10_FullCycle ==
    FullCycle =>
        /\ \A k \in 1..4 : calls[k].ret = 0
        /\ Did(1) = Shape(PowerOnAndReset \o TableWrites)
        /\ Did(2) = Shape(<< mipi_dsi_dcs_exit_sleep_mode(0), mipi_dsi_dcs_set_display_on(0),
                             mipi_dsi_dcs_set_tear_on(0) >>)
        /\ Did(3) = Shape(<< mipi_dsi_dcs_set_display_off(0), mipi_dsi_dcs_enter_sleep_mode(0) >>)
        /\ Did(4) = Shape(PowerOff)
        /\ prepared = FALSE

\* C10 amended: panel-clockwork-cwu50.c performs the documented sequences; in
\* panel-cw-cwu50.c exit-sleep closes prepare instead of opening enable,
\* disable issues display-off only, and unprepare issues display-off and
\* enter-sleep before the power-off. Both end with the flag false and no
\* enable outstanding.
C10_FullCycleAmended ==
    FullCycle =>
        /\ \A k \in 1..4 : calls[k].ret = 0
        /\ prepared = FALSE /\ iovcc = 0 /\ vci = 0 /\ reset = 0
        /\ IF variant = "clockwork"
           THEN /\ Did(1) = Shape(PowerOnAndReset \o TableWrites)
                /\ Did(2) = Shape(<< mipi_dsi_dcs_exit_sleep_mode(0),
                                     mipi_dsi_dcs_set_display_on(0),
                                     mipi_dsi_dcs_set_tear_on(0) >>)
                /\ Did(3) = Shape(<< mipi_dsi_dcs_set_display_off(0),
                                     mipi_dsi_dcs_enter_sleep_mode(0) >>)
                /\ Did(4) = Shape(PowerOff)
           ELSE /\ Did(1) = Shape(PowerOnAndReset \o TableWrites
                                  \o <<mipi_dsi_dcs_exit_sleep_mode(0)>>)
                /\ Did(2) = Shape(<< mipi_dsi_dcs_set_display_on(0),
                                     mipi_dsi_dcs_set_tear_on(0) >>)
                /\ Did(3) = Shape(<<mipi_dsi_dcs_set_display_off(0)>>)
                /\ Did(4) = Shape(<< mipi_dsi_dcs_set_display_off(0),
                                     mipi_dsi_dcs_enter_sleep_mode(0) >> \o PowerOff)

C10_Witness == FullCycle /\ variant = "cw"

----------------------------------------------------------------------------
(* Delays *)

\* the least time, in microseconds, the sleeps of lg strictly between
\* positions a and b take
RECURSIVE MinWait(_, _, _)
MinWait(lg, a, b) ==
    IF a + 1 >= b THEN 0
    ELSE (IF lg[a + 1].act = "sleep" THEN lg[a + 1].val ELSE 0) + MinWait(lg, a + 1, b)

\* position of the first entry of lg calling `a` on target `t` (0 when there is none)
First(lg, a, t) ==
    LET ks == {k \in 1..Len(lg) : lg[k].act = a /\ lg[k].tgt = t}
    IN  IF ks = {} THEN 0 ELSE CHOOSE k \in ks : \A j \in ks : k <= j

\* positions of lg holding a DSI transfer that failed
FailedTransfers(lg) == {k \in 1..Len(lg) : lg[k].tgt = "dsi" /\ lg[k].res < 0}

----------------------------------------------------------------------------
(* C11 *)

\* a prepare has just returned after one of its DSI transfers failed
PrepareTransferFailed == Returned("prepare") /\ FailedTransfers(Last.log) # {}

\* what prepare did after the failed transfer
RollbackTail ==
    LET f == CHOOSE k \in FailedTransfers(Last.log) : TRUE
    IN  SubSeq(Last.log, f + 1, Len(Last.log))

\* the order part of C11: after the failed transfer the hardware actions are
\* reset LOW, regulator_disable(VCI), regulator_disable(IOVCC), and the
\* transfer's error is returned
C11_Order ==
    /\ Cardinality(FailedTransfers(Last.log)) = 1
    /\ Shape(Actions(RollbackTail)) = Shape(PowerOff)
    /\ RollbackTail[1] = gpiod_set_value_cansleep(0)
    /\ Last.ret = Last.log[CHOOSE k \in FailedTransfers(Last.log) : TRUE].res

\* the least wait between reset LOW and the first regulator_disable of the rollback
RollbackWait == MinWait(RollbackTail, 1, First(RollbackTail, "regulator_disable", "vci"))

\* C11 as stated: when a transfer fails in prepare the rollback is exactly
\* reset LOW, a wait of at least 10 ms, VCI-disable, IOVCC-disable, then the
\* error is returned; no rail is disabled before reset LOW and the wait.
C11_RollbackOrder ==
    PrepareTransferFailed => (C11_Order /\ RollbackWait >= 10000)

\* C11 amended: the rollback is reset LOW, VCI-disable, IOVCC-disable, then the
\* error is returned, in both files; panel-clockwork-cwu50.c waits at least
\* 10 ms between reset LOW and VCI-disable, panel-cw-cwu50.c does not wait
\* there at all.
C11_RollbackOrderAmended ==
    PrepareTransferFailed =>
        /\ C11_Order
        /\ variant = "clockwork" => RollbackWait >= 10000
        /\ variant = "cw" => RollbackWait = 0

\* the first table write failed in panel-clockwork-cwu50.c and was rolled back
C11_Witness ==
    /\ PrepareTransferFailed
    /\ variant = "clockwork"
    /\ RollbackWait >= 10000
    /\ Len(Writes(Last.log)) = 1

----------------------------------------------------------------------------
(* C12 *)

\* an unprepare that ran the teardown has just returned
UnprepareRan == Returned("unprepare") /\ Last.log # <<>>

\* the reset-line writes and regulator calls of lg
RailAndReset(lg) ==
    SelectSeq(lg, LAMBDA e : e.act \in {"gpiod_set_value", "regulator_enable", "regulator_disable"})

\* C12: in every unprepare that runs the teardown the rail and reset actions
\* are reset LOW, a wait of at least 1 ms, VCI-disable, a wait of at least
\* 1 ms, IOVCC-disable; VCI is never disabled after IOVCC and no rail is
\* disabled while the reset line is HIGH.
C12_PowerOffOrder ==
    UnprepareRan =>
        LET lg == Last.log
            g  == First(lg, "gpiod_set_value", "reset")
            v  == First(lg, "regulator_disable", "vci")
            o  == First(lg, "regulator_disable", "iovcc")
        IN  /\ Shape(RailAndReset(lg)) = Shape(PowerOff)
            /\ 0 < g /\ g < v /\ v < o
            /\ MinWait(lg, g, v) >= 1000
            /\ MinWait(lg, v, o) >= 1000
            /\ reset = 0

\* a teardown whose VCI-disable reported a failure
C12_Witness ==
    /\ UnprepareRan
    /\ Disables(Last.log, "vci")[1].res < 0
    /\ Len(Disables(Last.log, "iovcc")) = 1

----------------------------------------------------------------------------
(* C13 *)

\* C13 as stated: when unprepare is called on a Prepared handle, driving the
\* reset line LOW is the first hardware action of the call; no transport
\* command precedes it.
C13_ResetFirst ==
    UnprepareOfPrepared =>
        /\ Last.log # <<>>
        /\ Last.log[1] = gpiod_set_value_cansleep(0)

\* C13 amended: unprepare of a Prepared handle always drives the reset line
\* LOW, before any regulator call and whatever the transport reports; in
\* panel-clockwork-cwu50.c it is the first hardware action, in
\* panel-cw-cwu50.c display-off and enter-sleep are issued before it.
C13_ResetFirstAmended ==
    UnprepareOfPrepared =>
        LET lg == Last.log
            g  == First(lg, "gpiod_set_value", "reset")
        IN  /\ g > 0
            /\ lg[g] = gpiod_set_value_cansleep(0)
            /\ \A k \in 1..(g - 1) : lg[k].act \notin {"regulator_enable", "regulator_disable"}
            /\ variant = "clockwork" => g = 1
            /\ variant = "cw" =>
                  Shape(Actions(SubSeq(lg, 1, g - 1)))
                      = Shape(<<mipi_dsi_dcs_set_display_off(0), mipi_dsi_dcs_enter_sleep_mode(0)>>)

\* panel-cw-cwu50.c: display-off failed, the reset line was driven low all the same
C13_Witness ==
    /\ UnprepareOfPrepared
    /\ variant = "cw"
    /\ Last.log[1] = mipi_dsi_dcs_set_display_off(-110)
    /\ reset = 0

----------------------------------------------------------------------------
(* C14 *)

\* the call that has just returned stopped at the first transfer that failed
\* and returned its error
AbortedAtFailure ==
    /\ Cardinality(FailedTransfers(Last.log)) = 1
    /\ Last.log[Len(Last.log)].res = Last.ret
    /\ Len(Last.log) \in FailedTransfers(Last.log)

\* the waits of a successful enable: at least 120 ms before display-on (counted
\* from exit-sleep when the call issues it), 10 to 20 ms between display-on and
\* tear-on
EnableWaits ==
    LET lg == Last.log
        x  == First(lg, "exit_sleep_mode", "dsi")
        d  == First(lg, "set_display_on", "dsi")
        t  == First(lg, "set_tear_on", "dsi")
    IN  /\ MinWait(lg, x, d) >= 120000
        /\ MinWait(lg, d, t) >= 10000
        /\ MinWait(lg, d, t) <= 20000

\* C14 as stated: every successful enable issues exactly exit-sleep,
\* display-on, tear-on, at least 120 ms between the first two and 10 to 20 ms
\* between the last two; a failure of any of them aborts before the later ones.
C14_EnableSequence ==
    Returned("enable") =>
        IF Last.ret = 0
        THEN /\ Shape(Actions(Last.log))
                   = Shape(<< mipi_dsi_dcs_exit_sleep_mode(0), mipi_dsi_dcs_set_display_on(0),
                              mipi_dsi_dcs_set_tear_on(0) >>)
             /\ EnableWaits
        ELSE AbortedAtFailure

\* C14 amended: a successful enable of panel-clockwork-cwu50.c issues exactly
\* exit-sleep, display-on, tear-on; a successful enable of panel-cw-cwu50.c
\* issues exactly display-on, tear-on after waiting 120 ms. In both at least
\* 120 ms pass before display-on and 10 to 20 ms between display-on and
\* tear-on, and a failure of any command aborts before the later ones.
C14_EnableSequenceAmended ==
    Returned("enable") =>
        IF Last.ret = 0
        THEN /\ Shape(Actions(Last.log))
                   = Shape((IF variant = "clockwork" THEN <<mipi_dsi_dcs_exit_sleep_mode(0)>>
                            ELSE <<>>)
                           \o <<mipi_dsi_dcs_set_display_on(0), mipi_dsi_dcs_set_tear_on(0)>>)
             /\ EnableWaits
        ELSE AbortedAtFailure

\* a successful enable of panel-clockwork-cwu50.c after a successful prepare
C14_Witness ==
    /\ Returned("enable") /\ Last.ret = 0
    /\ variant = "clockwork"
    /\ LiveBefore(Len(calls))
    /\ Len(Transfers(Last.log)) = 3

----------------------------------------------------------------------------
(* C15 *)

\* the call that has just returned wrote neither a rail nor the reset line
RailsAndResetUntouched ==
    /\ RailAndReset(Last.log) = <<>>
    /\ iovcc = Last.pre.iovcc /\ vci = Last.pre.vci /\ reset = Last.pre.reset

\* a disable whose display-off failed returned that error at once
DisplayOffFailureReturned ==
    (Last.log[1].res < 0) =>
        /\ Last.log = <<mipi_dsi_dcs_set_display_off(Last.ret)>>
        /\ Last.ret < 0
        /\ RailsAndResetUntouched

\* display-off, at least 50 ms, enter-sleep, at least 100 ms
DocumentedDisable ==
    LET lg == Last.log
        e  == First(lg, "enter_sleep_mode", "dsi")
    IN  /\ Shape(Actions(lg))
              = Shape(<<mipi_dsi_dcs_set_display_off(0), mipi_dsi_dcs_enter_sleep_mode(0)>>)
        /\ MinWait(lg, 1, e) >= 50000
        /\ MinWait(lg, e, Len(lg) + 1) >= 100000

\* C15 as stated: disable issues display-off, waits at least 50 ms, issues
\* enter-sleep and waits at least 100 ms; when display-off fails it returns
\* the error without enter-sleep and without touching the rails or the reset
\* line.
C15_DisableSequence ==
    Returned("disable") =>
        /\ Last.log[1].act = "set_display_off"
        /\ DisplayOffFailureReturned
        /\ Last.ret = 0 => DocumentedDisable

\* C15 amended: disable of panel-clockwork-cwu50.c issues display-off, waits
\* at least 50 ms, issues enter-sleep and waits at least 100 ms; disable of
\* panel-cw-cwu50.c issues display-off only and returns its result. In both a
\* failed display-off is returned at once, and disable never touches the
\* rails or the reset line.
C15_DisableSequenceAmended ==
    Returned("disable") =>
        /\ Last.log[1].act = "set_display_off"
        /\ DisplayOffFailureReturned
        /\ RailsAndResetUntouched
        /\ (variant = "clockwork" /\ Last.ret = 0) => DocumentedDisable
        /\ variant = "cw" =>
              (Len(Last.log) = 1 /\ Last.ret = Last.log[1].res)

\* a disable of panel-clockwork-cwu50.c that went through both commands
C15_Witness ==
    /\ Returned("disable") /\ Last.ret = 0
    /\ variant = "clockwork"
    /\ Len(Transfers(Last.log)) = 2
    /\ MinWait(Last.log, 0, Len(Last.log) + 1) >= 150000

----------------------------------------------------------------------------
(* C16 *)

\* position in lg of the n-th reset-line write (0 when there are fewer)
GpioAt(lg, n) ==
    LET ks == {k \in 1..Len(lg) : lg[k].act = "gpiod_set_value"}
    IN  IF Cardinality(ks) < n THEN 0
        ELSE CHOOSE k \in ks : Cardinality({j \in ks : j <= k}) = n

\* position in lg of the first DSI transfer (0 when there is none)
FirstTransfer(lg) ==
    LET ks == {k \in 1..Len(lg) : lg[k].tgt = "dsi"}
    IN  IF ks = {} THEN 0 ELSE CHOOSE k \in ks : \A j \in ks : k <= j

\* position in lg of the last DSI transfer (0 when there is none)
LastTransfer(lg) ==
    LET ks == {k \in 1..Len(lg) : lg[k].tgt = "dsi"}
    IN  IF ks = {} THEN 0 ELSE CHOOSE k \in ks : \A j \in ks : j <= k

\* the least wait of a prepare between its IOVCC-enable and its VCI-enable
RampWait ==
    MinWait(Last.log, First(Last.log, "regulator_enable", "iovcc"),
            First(Last.log, "regulator_enable", "vci"))

\* a prepare that reached regulator_enable(vci) has just returned
PrepareReachedVci == Returned("prepare") /\ First(Last.log, "regulator_enable", "vci") > 0

\* a prepare that pulsed the reset line and reached its first transfer has just returned
PreparePulsed == Returned("prepare") /\ FirstTransfer(Last.log) > 0

\* the reset-pulse part of C16: first HIGH held at least 5 ms, LOW held at
\* least 1 ms, at least 10 ms between the final HIGH and the first transfer
PulseWaits ==
    LET lg == Last.log
    IN  /\ lg[GpioAt(lg, 1)].val = 1 /\ lg[GpioAt(lg, 2)].val = 0 /\ lg[GpioAt(lg, 3)].val = 1
        /\ GpioAt(lg, 3) < FirstTransfer(lg)
        /\ MinWait(lg, GpioAt(lg, 1), GpioAt(lg, 2)) >= 5000
        /\ MinWait(lg, GpioAt(lg, 2), GpioAt(lg, 3)) >= 1000
        /\ MinWait(lg, GpioAt(lg, 3), FirstTransfer(lg)) >= 10000

\* C16 as stated: in every prepare at least 1 ms passes between IOVCC-enable
\* and VCI-enable, the first reset-HIGH is held at least 5 ms, the reset-LOW
\* at least 1 ms, and at least 10 ms pass between the final reset-HIGH and the
\* first transport write.
C16_BringUpDelays ==
    /\ PrepareReachedVci => RampWait >= 1000
    /\ PreparePulsed => PulseWaits

\* C16 amended: panel-clockwork-cwu50.c waits at least 1 ms between
\* IOVCC-enable and VCI-enable, panel-cw-cwu50.c does not wait there at all;
\* in both the first reset-HIGH is held at least 5 ms, the reset-LOW at least
\* 1 ms, and at least 10 ms pass between the final reset-HIGH and the first
\* transport write.
C16_BringUpDelaysAmended ==
    /\ PrepareReachedVci =>
          (IF variant = "clockwork" THEN RampWait >= 1000 ELSE RampWait = 0)
    /\ PreparePulsed => PulseWaits

\* a prepare that pulsed the reset line and sent the whole table
C16_Witness ==
    /\ PreparePulsed
    /\ Last.ret = 0
    /\ RampWait >= 1000
    /\ Len(Writes(Last.log)) = ARRAY_SIZE

----------------------------------------------------------------------------
(* C17 *)

\* a prepare whose regulator_enable(iovcc) failed has just returned
IovccEnableFailed ==
    /\ Returned("prepare")
    /\ \E k \in 1..Len(Last.log) :
          Last.log[k].act = "regulator_enable" /\ Last.log[k].tgt = "iovcc" /\ Last.log[k].res < 0

\* C17: when IOVCC-enable fails, prepare returns that error at once with no
\* side effect: no regulator_disable, no VCI-enable, no reset write, no
\* transport write, and the power flag stays false.
C17_IovccFailureClean ==
    IovccEnableFailed =>
        /\ Last.log = <<regulator_enable("iovcc", Last.ret)>>
        /\ Last.ret < 0
        /\ Snapshot = Last.pre
        /\ prepared = FALSE

\* IOVCC-enable failed on the retry after a prepare that was rolled back
C17_Witness ==
    /\ IovccEnableFailed
    /\ Len(calls) >= 2
    /\ calls[Len(calls) - 1].op = "prepare"
    /\ Transfers(calls[Len(calls) - 1].log) # <<>>

----------------------------------------------------------------------------
(* C18 *)

\* every hardware action issued so far, by returned calls and by calls in flight
RECURSIVE History(_)
History(k) == IF k = 0 THEN <<>> ELSE History(k - 1) \o calls[k].log
Issued ==
    History(Len(calls)) \o (IF pc = "idle" THEN <<>> ELSE log)
                       \o (IF parked.pc = "idle" THEN <<>> ELSE parked.log)

\* successful regulator_enable calls minus regulator_disable calls issued on a rail
Outstanding(rail) ==
    Len(SelectSeq(Issued, LAMBDA e : e.act = "regulator_enable" /\ e.tgt = rail /\ e.res = 0))
        - Len(Disables(Issued, rail))

\* call k is a prepare that passed the guard, sent the whole table and returned success
BroughtUp(k) ==
    /\ calls[k].op = "prepare" /\ calls[k].ret = 0
    /\ Writes(calls[k].log) = TableWrites

\* two prepares brought the panel up with no unprepare returning between them
DoubleBringUp ==
    \E j, k \in 1..Len(calls) :
        /\ j < k /\ BroughtUp(j) /\ BroughtUp(k)
        /\ \A m \in (j + 1)..(k - 1) : calls[m].op # "unprepare"

\* C18: the functions take no lock and the prepared guard of
\* panel-cw-cwu50.c is a check followed by a later set, so two interleaved
\* prepare calls can both pass it, enabling the rails and sending the table
\* twice (C18_Witness); as long as the calls are serialized no rail holds more
\* than one enable and the table is never sent twice.
C18_SerializedOnly ==
    (variant = "cw" /\ ~overlap) =>
        /\ Outstanding("iovcc") \in {0, 1}
        /\ Outstanding("vci") \in {0, 1}
        /\ ~DoubleBringUp

\* two interleaved prepares of panel-cw-cwu50.c both passed the guard: each
\* rail was enabled twice and the table was sent twice
C18_Witness ==
    /\ variant = "cw"
    /\ overlap
    /\ DoubleBringUp
    /\ Outstanding("iovcc") = 2 /\ Outstanding("vci") = 2
    /\ iovcc = 2 /\ vci = 2

----------------------------------------------------------------------------
(* C19 *)

\* call k is a successful prepare of an Unprepared handle and call k + 1 is a
\* successful enable
PrepareThenEnable(k) ==
    /\ k + 1 <= Len(calls)
    /\ calls[k].op = "prepare" /\ calls[k].ret = 0 /\ ~LiveBefore(k)
    /\ calls[k + 1].op = "enable" /\ calls[k + 1].ret = 0

\* C19: for a successful prepare immediately followed by a successful enable,
\* either file emits the transport commands table[0..N-1], exit-sleep,
\* display-on, tear-on, exit-sleep exactly once and at least 120 ms before
\* display-on, whichever of the two operations issues exit-sleep; the rail and
\* reset actions before the table are the same in both files too.
C19_SameTransportSequence ==
    (Returned("enable") /\ Len(calls) > 1 /\ PrepareThenEnable(Len(calls) - 1)) =>
        LET lg == calls[Len(calls) - 1].log \o Last.log
        IN  /\ Shape(Transfers(lg))
                  = Shape(TableWrites \o << mipi_dsi_dcs_exit_sleep_mode(0),
                                            mipi_dsi_dcs_set_display_on(0),
                                            mipi_dsi_dcs_set_tear_on(0) >>)
            /\ Shape(RailAndReset(lg)) = Shape(PowerOnAndReset)
            /\ FirstTransfer(lg) > GpioAt(lg, 3)
            /\ MinWait(lg, First(lg, "exit_sleep_mode", "dsi"),
                       First(lg, "set_display_on", "dsi")) >= 120000

\* panel-cw-cwu50.c: exit-sleep closed the prepare, the enable that followed succeeded
C19_Witness ==
    /\ variant = "cw"
    /\ PrepareThenEnable(1)
    /\ First(calls[1].log, "exit_sleep_mode", "dsi") = Len(calls[1].log)
    /\ First(calls[2].log, "exit_sleep_mode", "dsi") = 0

----------------------------------------------------------------------------
(* C20 *)

\* C20: whatever the calls and the failures, on each rail the
\* regulator_disable calls issued never outnumber the successful
\* regulator_enable calls, and enables minus disables is always 0 or 1.
C20_RegulatorBalance ==
    \A rail \in {"iovcc", "vci"} : Outstanding(rail) \in {0, 1}

\* C20 on the handles that keep the prepared flag (panel-cw-cwu50.c): the
\* same statement holds there.
C20_RegulatorBalanceCw == variant = "cw" => C20_RegulatorBalance

----------------------------------------------------------------------------
(* C21 *)

\* every regulator_disable of lg took effect
DisablesOk(lg) == \A k \in 1..Len(lg) : lg[k].act = "regulator_disable" => lg[k].res = 0

\* call k is a prepare that returned an error and whose rollback disables succeeded
UndonePrepare(k) ==
    /\ calls[k].op = "prepare" /\ calls[k].ret # 0
    /\ DisablesOk(calls[k].log)

\* lg sends each table entry at most once, in table order, and nothing after
\* a transfer that failed
NoRetry(lg) ==
    LET ws == Writes(lg)
    IN  /\ \A k \in 1..Len(ws) : Tag(ws[k]) = Tag(mipi_dsi_dcs_write_buffer(k - 1, 0))
        /\ \A f \in FailedTransfers(lg) : f = LastTransfer(lg)

\* C21: a failed prepare whose rollback disables succeeded leaves the prepared
\* flag and each rail's outstanding enables as they were before the call; the
\* next prepare starts again from IOVCC-enable and table[0]; no prepare sends
\* a table entry twice or sends anything after a failure.
C21_FailedPrepareUndone ==
    /\ (PrepareFailed /\ UndonePrepare(Len(calls))) =>
          /\ prepared = Last.pre.prepared
          /\ iovcc = Last.pre.iovcc
          /\ vci = Last.pre.vci
    /\ (Returned("prepare") /\ Len(calls) > 1 /\ UndonePrepare(Len(calls) - 1)) =>
          /\ Last.log # <<>>
          /\ Tag(Last.log[1]) = Tag(regulator_enable("iovcc", 0))
          /\ Last.ret = 0 => Writes(Last.log) = TableWrites
    /\ op = "prepare" => NoRetry(log)

\* a prepare failed at its last table write, was rolled back, and the retry
\* sent the whole table
C21_Witness ==
    /\ Returned("prepare") /\ Last.ret = 0
    /\ Len(calls) >= 2
    /\ UndonePrepare(Len(calls) - 1)
    /\ Len(Writes(calls[Len(calls) - 1].log)) = ARRAY_SIZE
    /\ Writes(Last.log) = TableWrites

----------------------------------------------------------------------------
(* C22 *)

\* every regulator_disable issued so far took effect
RegulatorCallsTookEffect == DisablesOk(Issued)

\* C22: in every reachable state, mid-operation and rollback states included,
\* and as long as every regulator_disable took effect, VCI enabled implies
\* IOVCC enabled.
C22_RailSequencing ==
    vci > 0 => (iovcc > 0 \/ ~RegulatorCallsTookEffect)

\* mid-rollback: VCI has been disabled, IOVCC is still enabled
C22_Witness ==
    /\ pc = "prepare_disable_iovcc"
    /\ RegulatorCallsTookEffect
    /\ Len(Disables(log, "vci")) = 1
    /\ vci = 0 /\ iovcc > 0

----------------------------------------------------------------------------
(* C23 *)

\* before entry k of lg, lg enabled IOVCC then VCI, disabled neither, and wrote
\* the reset line HIGH, LOW, HIGH and nothing after
PoweredAndReleased(lg, k) ==
    LET p == SubSeq(lg, 1, k - 1)
    IN  /\ RailsEnabled(p) = <<"iovcc", "vci">>
        /\ RailsDisabled(p) = <<>>
        /\ [n \in 1..Len(ResetWrites(p)) |-> ResetWrites(p)[n].val] = <<1, 0, 1>>

\* every transfer of the prepare log lg was issued on a powered, released
\* panel: the first one was, and up to the last one lg touched neither a rail
\* nor the reset line
WritesOnLivePanel(lg) ==
    LET f == FirstTransfer(lg)
    IN  f > 0 =>
          /\ PoweredAndReleased(lg, f)
          /\ \A k \in f..LastTransfer(lg) :
                lg[k].act \notin {"gpiod_set_value", "regulator_enable", "regulator_disable"}

\* C23: every transport write of the init sequence is issued when the running
\* prepare has enabled both rails and the last level written to the reset
\* line is HIGH after a complete HIGH-LOW-HIGH pulse.
C23_WritesOnLivePanel ==
    /\ op = "prepare" => WritesOnLivePanel(log)
    /\ pc = "init_sequence" => (iovcc > 0 /\ vci > 0 /\ reset = 1)

\* mid-prepare: the first table entry has been sent, the next is about to be
C23_Witness ==
    /\ pc = "init_sequence"
    /\ 0 < i /\ i < ARRAY_SIZE
    /\ Len(Writes(log)) = i
    /\ PoweredAndReleased(log, Len(log))

----------------------------------------------------------------------------
(* C24 *)

\* lg holds transport commands and waits only
OnlyTransfersAndWaits(lg) == \A k \in 1..Len(lg) : lg[k].tgt = "dsi" \/ lg[k].act = "sleep"

\* C24: every enable and every disable, at each of its steps and on return,
\* succeeding or failing at any command, leaves the prepared flag, both rails
\* and the reset line as they were on entry; it issues transport commands
\* and waits only.
C24_EnableDisableFrame ==
    op \in {"enable", "disable"} =>
        (Snapshot = pre /\ OnlyTransfersAndWaits(log))

\* an enable of a Prepared handle failed at tear-on
C24_Witness ==
    /\ Returned("enable") /\ Last.ret < 0
    /\ Last.pre.iovcc > 0 /\ Last.pre.vci > 0 /\ Last.pre.reset = 1
    /\ Last.log[Len(Last.log)] = mipi_dsi_dcs_set_tear_on(Last.ret)

----------------------------------------------------------------------------
(* C25 *)

\* a prepare whose exit-sleep-mode command failed has just returned
PrepareExitSleepFailed ==
    /\ Returned("prepare")
    /\ \E k \in FailedTransfers(Last.log) : Last.log[k].act = "exit_sleep_mode"

\* C25: in panel-cw-cwu50.c, when exit-sleep-mode fails in prepare after all
\* table entries were sent, prepare returns that error, drives the reset line
\* LOW, calls regulator_disable once on VCI and then once on IOVCC, and leaves
\* the prepared flag false.
C25_ExitSleepFailure ==
    PrepareExitSleepFailed =>
        /\ Writes(Last.log) = TableWrites
        /\ Cardinality(FailedTransfers(Last.log)) = 1
        /\ Last.ret = Last.log[CHOOSE k \in FailedTransfers(Last.log) : TRUE].res
        /\ Shape(Actions(RollbackTail)) = Shape(PowerOff)
        /\ reset = 0
        /\ prepared = FALSE

\* exit-sleep-mode failed after the whole table and both disables took effect
C25_Witness ==
    /\ PrepareExitSleepFailed
    /\ variant = "cw"
    /\ DisablesOk(Last.log)
    /\ iovcc = 0 /\ vci = 0

----------------------------------------------------------------------------
(* C26 *)

\* the running call has sent no table entry twice and has issued at most the
\* hardware actions of the longest path (power-on, reset pulse, table,
\* exit-sleep, reset low, two disables)
BoundedWork ==
    /\ Len(Writes(log)) <= ARRAY_SIZE
    /\ Len(Actions(log)) <= ARRAY_SIZE + 9

\* C26: for any pattern of regulator and transport outcomes every call of
\* prepare, enable, disable or unprepare eventually returns, after a bounded
\* number of hardware actions (at most N table writes in prepare); there is
\* no state in which a call loops or stalls.
C26_RunsToCompletion ==
    /\ []BoundedWork
    /\ (pc # "idle") ~> (pc = "idle")

\* a prepare returned an error after the longest rollback path of the clockwork file
C26_Witness ==
    /\ Returned("prepare") /\ Last.ret < 0
    /\ Len(Writes(Last.log)) = ARRAY_SIZE
    /\ Len(Actions(Last.log)) >= ARRAY_SIZE + 8

====
